---- MODULE Spec2Model ----
(***************************************************************************)
(* Model of tools/regexgen/main.go of xurls: the generator that fetches    *)
(* the two TLD lists, merges them, and assembles the webURL / email / all  *)
(* regular expressions.  Strings are sequences of one-character strings;   *)
(* regular expressions are syntax trees interpreted by a leftmost-first    *)
(* (Perl/Go order) matcher.                                                *)
(***************************************************************************)
EXTENDS Integers, Sequences, FiniteSets, TLC

(***************************************************************************)
(* Characters.  The model alphabet is a finite sample of code points; every *)
(* class of the source is the set of sample characters inside its ranges.  *)
(***************************************************************************)
Chars ==
  << " ", "!", "#", "$", "%", "+", "-", ".", "/",
     "0", "1", "2", "3", "4", "5", "6", "7", "8", "9",
     ":", "<", "=", "?", "@",
     "A", "B", "C", "F", "K", "M", "N", "O", "V", "Z",
     "_", "bq",
     "a", "b", "c", "d", "e", "f", "h", "i", "k", "l", "m", "n", "o", "p",
     "q", "r", "s", "t", "u", "w", "x", "z",
     "|", "u009f", "u00e9", "ufdd0", "ufe00" >>

Codes ==
  << 32, 33, 35, 36, 37, 43, 45, 46, 47,
     48, 49, 50, 51, 52, 53, 54, 55, 56, 57,
     58, 60, 61, 63, 64,
     65, 66, 67, 70, 75, 77, 78, 79, 86, 90,
     95, 96,
     97, 98, 99, 100, 101, 102, 104, 105, 107, 108, 109, 110, 111, 112,
     113, 114, 115, 116, 117, 119, 120, 122,
     124, 159, 233, 64976, 65024 >>

Alphabet == {Chars[k] : k \in DOMAIN Chars}

Code == [c \in Alphabet |-> Codes[CHOOSE k \in DOMAIN Chars : Chars[k] = c]]

Range(lo, hi) == {c \in Alphabet : Code[c] >= lo /\ Code[c] <= hi}

Digit == Range(48, 57)
Upper == Range(65, 90)
Lower == Range(97, 122)
AlNum == Lower \cup Upper \cup Digit
WordChar == AlNum \cup {"_"}
Space == {" "}

ToLowerChar(c) ==
  IF c \in Upper THEN CHOOSE d \in Alphabet : Code[d] = Code[c] + 32 ELSE c

ToUpperChar(c) ==
  IF c \in Lower /\ (\E d \in Alphabet : Code[d] = Code[c] - 32)
    THEN CHOOSE d \in Alphabet : Code[d] = Code[c] - 32 ELSE c

ToLower(s) == [k \in DOMAIN s |-> ToLowerChar(s[k])]

SeqRange(s) == {s[k] : k \in DOMAIN s}

(***************************************************************************)
(* Regular expressions as syntax trees.                                    *)
(***************************************************************************)
Inf == 0 - 1

Cls(S) == [op |-> "cls", set |-> S]
Lit(c) == Cls({c})
Cat(subs) == [op |-> "cat", subs |-> subs]
Alt(subs) == [op |-> "alt", subs |-> subs]
Rep(sub, lo, hi) == [op |-> "rep", sub |-> sub, lo |-> lo, hi |-> hi]
Opt(sub) == Rep(sub, 0, 1)
Plus(sub) == Rep(sub, 1, Inf)
WordBoundary == [op |-> "wb"]
EndText == [op |-> "eot"]
BeginText == [op |-> "bot"]

\* a literal string, case-sensitive
Str(s) == Cat([k \in DOMAIN s |-> Lit(s[k])])
\* a literal string under (?i)
StrFold(s) == Cat([k \in DOMAIN s |-> Cls({ToLowerChar(s[k]), ToUpperChar(s[k]), s[k]})])

Min(a, b) == IF a < b THEN a ELSE b

IsWordAt(s, k) == k >= 1 /\ k <= Len(s) /\ s[k] \in WordChar

Merge(a, b) == a \o SelectSeq(b, LAMBDA x : x \notin SeqRange(a))

(***************************************************************************)
(* Ends(re, s, i): the positions where a match of re starting at position  *)
(* i of s can end, in the order a backtracking (leftmost-first) matcher    *)
(* tries them: earlier alternatives first, greedy repetition first.        *)
(* Position i means "before s[i]"; Len(s)+1 is the end of the text.        *)
(***************************************************************************)
RECURSIVE Ends(_, _, _)
RECURSIVE EndsFrom(_, _, _)

\* re tried at each position of ps in turn: the ends found from ps[1] first,
\* then the new ones found from ps[2], and so on
EndsFrom(re, s, ps) ==
  IF ps = <<>> THEN <<>>
  ELSE IF Len(ps) = 1 THEN Ends(re, s, ps[1])
  ELSE LET half == Len(ps) \div 2
       IN  Merge(EndsFrom(re, s, SubSeq(ps, 1, half)),
                 EndsFrom(re, s, SubSeq(ps, half + 1, Len(ps))))

Ends(re, s, i) ==
  CASE re.op = "cls" ->
         IF i <= Len(s) /\ s[i] \in re.set THEN <<i + 1>> ELSE <<>>
    [] re.op = "cat" ->
         IF re.subs = <<>> THEN <<i>>
         ELSE IF Len(re.subs) = 1 THEN Ends(re.subs[1], s, i)
         ELSE EndsFrom(Cat(Tail(re.subs)), s, Ends(Head(re.subs), s, i))
    [] re.op = "alt" ->
         IF re.subs = <<>> THEN <<>>
         ELSE Merge(Ends(Head(re.subs), s, i), Ends(Alt(Tail(re.subs)), s, i))
    [] re.op = "rep" /\ re.sub.op = "cls" ->
         \* a repeated class: the longest run first, then each shorter one
         LET cap == IF re.hi = Inf THEN Len(s) - i + 1
                    ELSE Min(re.hi, Len(s) - i + 1)
             run == CHOOSE k \in 0..cap :
                      /\ \A j \in 1..k : s[i + j - 1] \in re.sub.set
                      /\ k < cap => s[i + k] \notin re.sub.set
         IN  IF run < re.lo THEN <<>>
             ELSE [k \in 1..(run - re.lo + 1) |-> i + run - k + 1]
    [] re.op = "rep" ->
         LET once == Ends(re.sub, s, i)
             step == IF re.lo > 0 THEN once ELSE SelectSeq(once, LAMBDA j : j > i)
             rest == Rep(re.sub,
                         IF re.lo > 0 THEN re.lo - 1 ELSE 0,
                         IF re.hi = Inf THEN Inf ELSE re.hi - 1)
             more == IF re.hi = 0 THEN <<>> ELSE EndsFrom(rest, s, step)
             stop == IF re.lo = 0 THEN <<i>> ELSE <<>>
         IN  Merge(more, stop)
    [] re.op = "wb" ->
         IF IsWordAt(s, i - 1) # IsWordAt(s, i) THEN <<i>> ELSE <<>>
    [] re.op = "eot" ->
         IF i = Len(s) + 1 THEN <<i>> ELSE <<>>
    [] re.op = "bot" ->
         IF i = 1 THEN <<i>> ELSE <<>>

\* re matches the whole of s
FullMatch(re, s) == (Len(s) + 1) \in SeqRange(Ends(re, s, 1))

\* the first match of an unanchored search: <<start, end>> or <<>> when none
RECURSIVE FindFrom(_, _, _)
FindFrom(re, s, i) ==
  IF i > Len(s) + 1 THEN <<>>
  ELSE LET e == Ends(re, s, i)
       IN  IF e # <<>> THEN <<i, Head(e)>> ELSE FindFrom(re, s, i + 1)

Find(re, s) == FindFrom(re, s, 1)

\* the matched text of the first match ("" when none, as regexp.FindString)
SubStr(s, a, b) == [k \in 1..(b - a) |-> s[a + k - 1]]
FindString(re, s) ==
  LET m == Find(re, s) IN IF m = <<>> THEN <<>> ELSE SubStr(s, m[1], m[2])

(***************************************************************************)
(* The pattern constants of main.go, lines 130-137.                        *)
(***************************************************************************)
\* letters = "a-zA-Z" + U+00A0-U+D7FF + U+F900-U+FDCF + U+FDF0-U+FFEF
letters ==
  Range(97, 122) \cup Range(65, 90) \cup Range(160, 55295)
    \cup Range(63744, 64975) \cup Range(65008, 65519)

\* iriChar = letters + 0-9
iriChar == letters \cup Range(48, 57)

D(lo, hi) == Cls(Range(48 + lo, 48 + hi))

\* 25[0-5] | 2[0-4][0-9] | [0-1][0-9]{2} | [1-9][0-9]
OctetHigh ==
  << Cat(<<Lit("2"), Lit("5"), D(0, 5)>>),
     Cat(<<Lit("2"), D(0, 4), D(0, 9)>>),
     Cat(<<D(0, 1), Rep(D(0, 9), 2, 2)>>),
     Cat(<<D(1, 9), D(0, 9)>>) >>

ipv4First == Alt(OctetHigh \o <<D(1, 9)>>)
ipv4Mid == Alt(OctetHigh \o <<D(1, 9), Lit("0")>>)
ipv4Last == Alt(OctetHigh \o <<D(0, 9)>>)

ipv4Addr ==
  Cat(<<ipv4First, Lit("."), ipv4Mid, Lit("."), ipv4Mid, Lit("."), ipv4Last>>)

\* a label pattern that lets 62 characters stand between first and last
iriOneMore ==
  Cat(<<Cls(iriChar),
        Rep(Cat(<<Rep(Cls(iriChar \cup {"-"}), 0, 62), Cls(iriChar)>>), 0, 1)>>)

\* iri = [iriChar]([iriChar\-]{0,61}[iriChar]){0,1}
iri ==
  Cat(<<Cls(iriChar),
        Rep(Cat(<<Rep(Cls(iriChar \cup {"-"}), 0, 61), Cls(iriChar)>>), 0, 1)>>)

\* ipAddr = ( ipv4Addr | ipv6Addr ), with ipv6Addr the alternation of twelve forms
\* [0-9a-fA-F]
HexDigit == Range(48, 57) \cup Range(97, 102) \cup Range(65, 70)

\* [0-9a-fA-F]{1,4}
h16 == Rep(Cls(HexDigit), 1, 4)

\* (25[0-5]|(2[0-4]|1{0,1}[0-9]){0,1}[0-9])
v6Octet ==
  Alt(<<
    Cat(<<Str(<<"2", "5">>), Cls(Range(48, 53))>>),
    Cat(<<
      Rep(Alt(<<
        Cat(<<Lit("2"), Cls(Range(48, 52))>>),
        Cat(<<Rep(Lit("1"), 0, 1), Cls(Range(48, 57))>>) >>), 0, 1),
      Cls(Range(48, 57)) >>) >>)

\* ([0-9a-fA-F]{1,4}:){7,7}[0-9a-fA-F]{1,4}
ipv6Form1 ==
  Cat(<<Rep(Cat(<<h16, Lit(":")>>), 7, 7), h16>>)

\* ([0-9a-fA-F]{1,4}:){1,7}:
ipv6Form2 ==
  Cat(<<Rep(Cat(<<h16, Lit(":")>>), 1, 7), Lit(":")>>)

\* ([0-9a-fA-F]{1,4}:){1,6}:[0-9a-fA-F]{1,4}
ipv6Form3 ==
  Cat(<<Rep(Cat(<<h16, Lit(":")>>), 1, 6), Lit(":"), h16>>)

\* ([0-9a-fA-F]{1,4}:){1,5}(:[0-9a-fA-F]{1,4}){1,2}
ipv6Form4 ==
  Cat(<<
    Rep(Cat(<<h16, Lit(":")>>), 1, 5),
    Rep(Cat(<<Lit(":"), h16>>), 1, 2) >>)

\* ([0-9a-fA-F]{1,4}:){1,4}(:[0-9a-fA-F]{1,4}){1,3}
ipv6Form5 ==
  Cat(<<
    Rep(Cat(<<h16, Lit(":")>>), 1, 4),
    Rep(Cat(<<Lit(":"), h16>>), 1, 3) >>)

\* ([0-9a-fA-F]{1,4}:){1,3}(:[0-9a-fA-F]{1,4}){1,4}
ipv6Form6 ==
  Cat(<<
    Rep(Cat(<<h16, Lit(":")>>), 1, 3),
    Rep(Cat(<<Lit(":"), h16>>), 1, 4) >>)

\* ([0-9a-fA-F]{1,4}:){1,2}(:[0-9a-fA-F]{1,4}){1,5}
ipv6Form7 ==
  Cat(<<
    Rep(Cat(<<h16, Lit(":")>>), 1, 2),
    Rep(Cat(<<Lit(":"), h16>>), 1, 5) >>)

\* [0-9a-fA-F]{1,4}:((:[0-9a-fA-F]{1,4}){1,6})
ipv6Form8 ==
  Cat(<<h16, Lit(":"), Rep(Cat(<<Lit(":"), h16>>), 1, 6)>>)

\* :((:[0-9a-fA-F]{1,4}){1,7}|:)
ipv6Form9 ==
  Cat(<<Lit(":"), Alt(<<Rep(Cat(<<Lit(":"), h16>>), 1, 7), Lit(":")>>)>>)

\* fe80:(:[0-9a-fA-F]{0,4}){0,4}%[0-9a-zA-Z]{1,}
ipv6Form10 ==
  Cat(<<
    Str(<<"f", "e", "8", "0", ":">>),
    Rep(Cat(<<Lit(":"), Rep(Cls(HexDigit), 0, 4)>>), 0, 4),
    Lit("%"),
    Rep(Cls(Range(48, 57) \cup Range(97, 122) \cup Range(65, 90)), 1, Inf) >>)

\* ::(ffff(:0{1,4}){0,1}:){0,1}((25[0-5]|(2[0-4]|1{0,1}[0-9]){0,1}[0-9])\.){3,3}(25[0-5]|(2[0-4]|1{0,1}[0-9]){0,1}[0-9])
ipv6Form11 ==
  Cat(<<
    Str(<<":", ":">>),
    Rep(Cat(<<
      Str(<<"f", "f", "f", "f">>),
      Rep(Cat(<<Lit(":"), Rep(Lit("0"), 1, 4)>>), 0, 1),
      Lit(":") >>), 0, 1),
    Rep(Cat(<<v6Octet, Lit(".")>>), 3, 3),
    v6Octet >>)

\* ([0-9a-fA-F]{1,4}:){1,4}:((25[0-5]|(2[0-4]|1{0,1}[0-9]){0,1}[0-9])\.){3,3}(25[0-5]|(2[0-4]|1{0,1}[0-9]){0,1}[0-9])
ipv6Form12 ==
  Cat(<<
    Rep(Cat(<<h16, Lit(":")>>), 1, 4),
    Lit(":"),
    Rep(Cat(<<v6Octet, Lit(".")>>), 3, 3),
    v6Octet >>)

ipv6Addr ==
  Alt(<<ipv6Form1, ipv6Form2, ipv6Form3, ipv6Form4, ipv6Form5, ipv6Form6,
        ipv6Form7, ipv6Form8, ipv6Form9, ipv6Form10, ipv6Form11, ipv6Form12>>)

ipAddr == Alt(<<ipv4Addr, ipv6Addr>>)

(***************************************************************************)
(* The patterns writeRegex assembles around the domain name (lines 150-153). *)
(***************************************************************************)
\* [a-zA-Z0-9\$\-\_\.\+\!\*\'\(\)\,\;\?\&\=]
userInfoChar ==
  Range(97, 122) \cup Range(65, 90) \cup Range(48, 57) \cup {"$", "-", "_", ".", "+", "!", "*", "'", "(", ")", ",", ";", "?", "&", "="}

\* (\%[a-fA-F0-9]{2})
pctEncoded == Cat(<<Lit("%"), Rep(Cls(HexDigit), 2, 2)>>)

\* [iriChar \;\/\?\:\@\&\=\#\~\-\.\+\!\*\'\(\)\,\_]
pathChar ==
  iriChar \cup {";", "/", "?", ":", "@", "&", "=", "#", "~", "-", ".", "+", "!", "*", "'", "(", ")", ",", "_"}

\* (https?:\/\/( userinfo (\: password)? \@ )?)?
urlScheme ==
  Rep(Cat(<<
    Str(<<"h", "t", "t", "p">>),
    Rep(Lit("s"), 0, 1),
    Str(<<":", "/", "/">>),
    Rep(Cat(<<
      Rep(Alt(<<Cls(userInfoChar), pctEncoded>>), 1, 64),
      Rep(Cat(<<
        Lit(":"),
        Rep(Alt(<<Cls(userInfoChar), pctEncoded>>), 1, 25) >>), 0, 1),
      Lit("@") >>), 0, 1) >>), 0, 1)

\* (\:\d{1,5})?
urlPort == Rep(Cat(<<Lit(":"), Rep(Cls(Range(48, 57)), 1, 5)>>), 0, 1)

\* (\/(([ pathChar ])|(\%[a-fA-F0-9]{2}))*)?
urlPath ==
  Rep(Cat(<<Lit("/"), Rep(Alt(<<Cls(pathChar), pctEncoded>>), 0, Inf)>>), 0, 1)

\* a webURL whose domain name may be missing
webURLOptionalDomain(domainName) ==
  Cat(<<
    Cat(<<urlScheme, Opt(domainName), urlPort>>),
    urlPath,
    Alt(<<WordBoundary, EndText>>) >>)

\* webURL = (( scheme )?( domainName )( port )?)( path )?(\b|$)
webURLRe(domainName) ==
  Cat(<<
    Cat(<<urlScheme, domainName, urlPort>>),
    urlPath,
    Alt(<<WordBoundary, EndText>>) >>)

\* email = [a-zA-Z0-9\.\_\%\-\+]{1,256}\@ domainName
emailRe(domainName) ==
  Cat(<<
    Rep(Cls(Range(97, 122) \cup Range(65, 90) \cup Range(48, 57) \cup {".", "_", "%", "-", "+"}), 1, 256),
    Lit("@"),
    domainName >>)

(***************************************************************************)
(* The same patterns as text: sequences of string pieces, so that the      *)
(* concatenations of writeRegex are concatenations of sequences.           *)
(***************************************************************************)
ipv4AddrText ==
  "((25[0-5]|2[0-4][0-9]|[0-1][0-9]{2}|[1-9][0-9]|[1-9])\\.(25[0-5]|2[0-4][0-9]|[0-1][0-9]{2}|[1-9][0-9]|[1-9]|0)\\.(25[0-5]|2[0-4][0-9]|[0-1][0-9]{2}|[1-9][0-9]|[1-9]|0)\\.(25[0-5]|2[0-4][0-9]|[0-1][0-9]{2}|[1-9][0-9]|[0-9]))"

ipv6AddrText ==
  "(([0-9a-fA-F]{1,4}:){7,7}[0-9a-fA-F]{1,4}|([0-9a-fA-F]{1,4}:){1,7}:|([0-9a-fA-F]{1,4}:){1,6}:[0-9a-fA-F]{1,4}|([0-9a-fA-F]{1,4}:){1,5}(:[0-9a-fA-F]{1,4}){1,2}|([0-9a-fA-F]{1,4}:){1,4}(:[0-9a-fA-F]{1,4}){1,3}|([0-9a-fA-F]{1,4}:){1,3}(:[0-9a-fA-F]{1,4}){1,4}|([0-9a-fA-F]{1,4}:){1,2}(:[0-9a-fA-F]{1,4}){1,5}|[0-9a-fA-F]{1,4}:((:[0-9a-fA-F]{1,4}){1,6})|:((:[0-9a-fA-F]{1,4}){1,7}|:)|fe80:(:[0-9a-fA-F]{0,4}){0,4}%[0-9a-zA-Z]{1,}|::(ffff(:0{1,4}){0,1}:){0,1}((25[0-5]|(2[0-4]|1{0,1}[0-9]){0,1}[0-9])\\.){3,3}(25[0-5]|(2[0-4]|1{0,1}[0-9]){0,1}[0-9])|([0-9a-fA-F]{1,4}:){1,4}:((25[0-5]|(2[0-4]|1{0,1}[0-9]){0,1}[0-9])\\.){3,3}(25[0-5]|(2[0-4]|1{0,1}[0-9]){0,1}[0-9]))"

webURLText1 ==
  "((https?:\\/\\/(([a-zA-Z0-9\\$\\-\\_\\.\\+\\!\\*\\'\\(\\)\\,\\;\\?\\&\\=]|(\\%[a-fA-F0-9]{2})){1,64}(\\:([a-zA-Z0-9\\$\\-\\_\\.\\+\\!\\*\\'\\(\\)\\,\\;\\?\\&\\=]|(\\%[a-fA-F0-9]{2})){1,25})?\\@)?)?("

webURLText2 == ")(\\:\\d{1,5})?)(\\/((["

webURLText3 == "\\;\\/\\?\\:\\@\\&\\=\\#\\~\\-\\.\\+\\!\\*\\'\\(\\)\\,\\_])|(\\%[a-fA-F0-9]{2}))*)?(\\b|$)"

emailText1 == "[a-zA-Z0-9\\.\\_\\%\\-\\+]{1,256}\\@"

\* letters, iriChar and iri as text (lines 131, 132, 136)
lettersText == <<"a-zA-Z\\u00A0-\\uD7FF\\uF900-\\uFDCF\\uFDF0-\\uFFEF">>
iriCharText == lettersText \o <<"0-9">>
ipAddrText == <<"(", ipv4AddrText, "|", ipv6AddrText, ")">>
iriText ==
  <<"[">> \o iriCharText \o <<"]([">> \o iriCharText \o <<"\\-]{0,61}[">>
    \o iriCharText \o <<"]){0,1}">>

(***************************************************************************)
(* Strings of the program: sort.Strings order and reverseJoin.             *)
(***************************************************************************)
\* byte-wise lexicographic order of Go strings
RECURSIVE StrLess(_, _)
StrLess(a, b) ==
  IF a = <<>> THEN b # <<>>
  ELSE IF b = <<>> THEN FALSE
  ELSE IF Code[Head(a)] # Code[Head(b)] THEN Code[Head(a)] < Code[Head(b)]
  ELSE StrLess(Tail(a), Tail(b))

StrLeq(a, b) == a = b \/ StrLess(a, b)

Insert(x, sorted) ==
  LET k == Cardinality({j \in DOMAIN sorted : StrLeq(sorted[j], x)})
  IN  SubSeq(sorted, 1, k) \o <<x>> \o SubSeq(sorted, k + 1, Len(sorted))

\* sort.Strings
RECURSIVE SortStrings(_)
SortStrings(a) ==
  IF a = <<>> THEN <<>> ELSE Insert(Head(a), SortStrings(Tail(a)))

\* for tld := range tlds { list = append(list, tld) }, in some map order
RECURSIVE MapKeys(_)
MapKeys(S) ==
  IF S = {} THEN <<>>
  ELSE LET x == CHOOSE y \in S : TRUE IN <<x>> \o MapKeys(S \ {x})

RECURSIVE SumLen(_)
SumLen(a) == IF a = <<>> THEN 0 ELSE Len(Head(a)) + SumLen(Tail(a))

\* copy(b[at:], src): the bytes copied and the buffer afterwards
Copy(b, at, src) ==
  LET k == Min(Len(b) - at, Len(src))
  IN  [n |-> k,
       b |-> [j \in DOMAIN b |-> IF j > at /\ j <= at + k THEN src[j - at] ELSE b[j]]]

\* a size that counts one separator per element
JoinSizePerElement(a, sep) == Len(sep) * Len(a) + SumLen(a)

\* n := len(sep) * (len(a) - 1); for i ... { n += len(a[i]) }
JoinSize(a, sep) == Len(sep) * (Len(a) - 1) + SumLen(a)

\* the loop for i := len(a) - 2; i >= 0; i-- (i is one-based here)
RECURSIVE JoinLoop(_, _, _, _, _)
JoinLoop(a, sep, i, b, bp) ==
  IF i < 1 THEN [b |-> b, bp |-> bp]
  ELSE LET c1 == Copy(b, bp, sep)
           c2 == Copy(c1.b, bp + c1.n, a[i])
       IN  JoinLoop(a, sep, i - 1, c2.b, bp + c1.n + c2.n)

\* the elements joined from first to last, as strings.Join does
RECURSIVE ForwardConcat(_, _)
ForwardConcat(a, sep) ==
  IF a = <<>> THEN <<>>
  ELSE IF Len(a) = 1 THEN a[1]
  ELSE a[1] \o sep \o ForwardConcat(Tail(a), sep)

forwardJoin(a, sep) ==
  [ret |-> ForwardConcat(a, sep), n |-> Len(ForwardConcat(a, sep)),
   bp |-> Len(ForwardConcat(a, sep))]

\* reverseJoin: the returned string, with the buffer size and the final bp
reverseJoin(a, sep) ==
  IF Len(a) = 0 THEN [ret |-> <<>>, n |-> 0, bp |-> 0]
  ELSE IF Len(a) = 1 THEN [ret |-> a[1], n |-> Len(a[1]), bp |-> Len(a[1])]
  ELSE LET n == JoinSize(a, sep)
           b0 == [j \in 1..n |-> "nul"]
           c0 == Copy(b0, 0, a[Len(a)])
           fin == JoinLoop(a, sep, Len(a) - 1, c0.b, c0.n)
       IN  [ret |-> fin.b, n |-> n, bp |-> fin.bp]

(***************************************************************************)
(* writeRegex: the TLD alternation and the patterns built on it.           *)
(***************************************************************************)
\* the alternatives of a group body: the pieces between the "|" characters
RECURSIVE SplitBar(_, _)
SplitBar(s, cur) ==
  IF s = <<>> THEN <<cur>>
  ELSE IF Head(s) = "|" THEN <<cur>> \o SplitBar(Tail(s), <<>>)
  ELSE SplitBar(Tail(s), Append(cur, Head(s)))

Alternatives(joined) == SplitBar(joined, <<>>)

\* gtld = (?i)( joined )(?-i)
gtldRe(joined) ==
  LET alts == Alternatives(joined)
  IN  Alt([k \in DOMAIN alts |-> StrFold(alts[k])])

\* hostName = ( iri \. )+ gtld
hostNameRe(gtld) == Cat(<<Plus(Cat(<<iri, Lit(".")>>)), gtld>>)

\* domainName = ( hostName | ipAddr | localhost )
domainNameRe(gtld) ==
  Alt(<<hostNameRe(gtld), ipAddr,
        Str(<<"l", "o", "c", "a", "l", "h", "o", "s", "t">>)>>)

gtldText(joined) == <<"(?i)(">> \o joined \o <<")(?-i)">>
hostNameText(joined) == <<"(">> \o iriText \o <<"\\.)+">> \o gtldText(joined)
domainNameText(joined) ==
  <<"(">> \o hostNameText(joined) \o <<"|">> \o ipAddrText \o <<"|localhost)">>
webURLText(joined) ==
  <<webURLText1>> \o domainNameText(joined) \o <<webURLText2>> \o iriCharText
    \o <<webURLText3>>
emailText(joined) == <<emailText1>> \o domainNameText(joined)

\* an All field that names the email constant first
allFieldEmailFirst ==
  <<"(", "bq", " + ", "email", " + ", "bq", "|", "bq", " + ", "webURL", " + ",
    "bq", ")">>

\* the All field: the interpreted string literal of line 165, character for
\* character ("bq" is the backquote)
allField ==
  <<"(", "bq", " + ", "webURL", " + ", "bq", "|", "bq", " + ", "email", " + ",
    "bq", ")">>

\* the struct handed to regexTmpl.Execute
TemplateData(joined) ==
  [WebURL |-> webURLText(joined), Email |-> emailText(joined), All |-> allField]

\* regexTmpl: each field is written between backquotes, unescaped
regexTmpl(data) ==
  [webURL |-> <<"bq">> \o data.WebURL \o <<"bq">>,
   email |-> <<"bq">> \o data.Email \o <<"bq">>,
   all |-> <<"bq">> \o data.All \o <<"bq">>]

\* the value of a constant expression of the generated regex.go: raw string
\* literals, identifiers of the same const block, and "+"
RECURSIVE GoConst(_, _, _, _)
GoConst(toks, env, raw, acc) ==
  IF toks = <<>> THEN acc
  ELSE IF Head(toks) = "bq" THEN GoConst(Tail(toks), env, ~raw, acc)
  ELSE IF raw THEN GoConst(Tail(toks), env, raw, Append(acc, Head(toks)))
  ELSE IF Head(toks) = " + " THEN GoConst(Tail(toks), env, raw, acc)
  ELSE GoConst(Tail(toks), env, raw, acc \o env[Head(toks)])

\* the three constants of the generated regex.go, evaluated
GeneratedConsts(file) ==
  LET w == GoConst(file.webURL, <<>>, FALSE, <<>>)
      e == GoConst(file.email, <<>>, FALSE, <<>>)
  IN  [webURL |-> w, email |-> e,
       all |-> GoConst(file.all, [webURL |-> w, email |-> e], FALSE, <<>>)]

(***************************************************************************)
(* The generator run: main, tldList, addFromIana, addFromPublicSuffix,     *)
(* writeTlds, writeRegex.                                                  *)
(***************************************************************************)
VARIABLES
  pc,          \* the statement of main that runs next
  iana,        \* what the request for the IANA list yields
  psl,         \* what the request for the public suffix list yields
  PseudoTLDs,  \* xurls.PseudoTLDs
  tlds,        \* the map tlds of tldList, as the set of its keys
  list,        \* the slice tldList returns
  err,         \* the error main reports, "" when none
  created,     \* the files os.Create has created
  tldsFile,    \* the contents of tlds.go
  allTlds,     \* the slice allTlds of writeRegex
  sink,        \* the struct writeRegex hands to regexTmpl
  regexFile,   \* the contents of regex.go
  joinArgs,    \* the arguments of a call of reverseJoin
  joined,      \* what that call returned
  input,       \* a text handed to a generated pattern
  scanTlds,    \* the sorted TLD list the pattern was generated from
  found        \* what matching the pattern on the text found

genVars == <<pc, iana, psl, PseudoTLDs, tlds, list, err, created, tldsFile,
             allTlds, sink, regexFile>>
joinVars == <<joinArgs, joined>>
scanVars == <<input, scanTlds, found>>
vars == <<genVars, joinVars, scanVars>>

None == <<"none">>
NoData == [WebURL |-> <<>>, Email |-> <<>>, All |-> <<>>]
NoFile == [webURL |-> <<>>, email |-> <<>>, all |-> <<>>]
NoJoin == [ret |-> <<>>, n |-> 0, bp |-> 0]

\* bounds of the generator runs
MaxLines == 2
MaxPseudo == 1

RECURSIVE SeqsUpTo(_, _)
SeqsUpTo(S, n) ==
  IF n = 0 THEN {<<>>}
  ELSE LET shorter == SeqsUpTo(S, n - 1)
       IN  shorter \cup {Append(q, x) : q \in shorter, x \in S}

com == <<"c", "o", "m">>
commbank == <<"c", "o", "m", "m", "b", "a", "n", "k">>
local == <<"l", "o", "c", "a", "l">>

\* lines of tlds-alpha-by-domain.txt: a comment and two upper-case TLDs
IanaLines ==
  { <<"#", " ", "V">>, <<"C", "O", "M">>,
    <<"C", "O", "M", "M", "B", "A", "N", "K">> }

\* lines of effective_tld_names.dat: a TLD, a two-label suffix and a
\* comment that names a punycode TLD
PslLines ==
  { com, <<"a", ".", "b">>, <<"/", "/", " ", "x", "n", "-", "-", "q", " ">> }

\* the body of an error response
ErrorPage == << <<"4", "0", "4">> >>

\* what http.Get and the scanner can deliver: the whole body, a failed
\* request, the body of an error response, or the lines before a read error
Fetches(lines) ==
  {[outcome |-> "ok", lines |-> b] : b \in SeqsUpTo(lines, MaxLines)}
    \cup {[outcome |-> "request_failed", lines |-> <<>>]}
    \cup {[outcome |-> "error_response", lines |-> ErrorPage]}
    \cup {[outcome |-> "read_error", lines |-> b] : b \in SeqsUpTo(lines, MaxLines - 1)}

\* re := regexp.MustCompile(`^[^#]+$`)
ianaRe == Cat(<<BeginText, Plus(Cls(Alphabet \ {"#"})), EndText>>)

\* the keys addFromIana adds for the lines it scans
IanaKeys(lines) ==
  { ToLower(FindString(ianaRe, lines[k])) :
      k \in {j \in DOMAIN lines : FindString(ianaRe, lines[j]) # <<>>} }

\* re := regexp.MustCompile(`(^([^/.]+)$|^// (xn--[^\s]+)[\s$])`)
pslPlain == Cat(<<BeginText, Plus(Cls(Alphabet \ {"/", "."})), EndText>>)
pslPuny ==
  Cat(<<BeginText, Str(<<"/", "/", " ">>),
        Str(<<"x", "n", "-", "-">>), Plus(Cls(Alphabet \ Space))>>)
pslAfterPuny == Cls(Space \cup {"$"})

\* matches[2], or matches[3] when that is empty; <<>> when the line does
\* not match
PslKey(line) ==
  IF Ends(pslPlain, line, 1) # <<>> THEN line
  ELSE LET ends == SelectSeq(Ends(pslPuny, line, 1),
                             LAMBDA j : Ends(pslAfterPuny, line, j) # <<>>)
       IN  IF ends = <<>> THEN <<>> ELSE SubStr(line, 4, Head(ends))

PslKeys(lines) ==
  { PslKey(lines[k]) : k \in {j \in DOMAIN lines : PslKey(lines[j]) # <<>>} }

GenInit ==
  /\ pc = "addFromIana"
  /\ iana \in Fetches(IanaLines)
  /\ psl \in Fetches(PslLines)
  /\ PseudoTLDs \in SeqsUpTo({com, local}, MaxPseudo)
  /\ tlds = {}
  /\ list = <<>>
  /\ err = ""
  /\ created = {}
  /\ tldsFile = <<>>
  /\ allTlds = <<>>
  /\ sink = NoData
  /\ regexFile = NoFile

Idle ==
  /\ joinArgs = None /\ joined = NoJoin
  /\ input = None /\ scanTlds = <<>> /\ found = None

Init == GenInit /\ Idle

\* addFromIana, and tldList returning its error to main
AddFromIana ==
  /\ pc = "addFromIana"
  /\ IF iana.outcome = "request_failed"
       THEN /\ err' = "Could not get TLD list"
            /\ pc' = "fatal"
            /\ tlds' = tlds
       ELSE /\ tlds' = tlds \cup IanaKeys(iana.lines)
            /\ pc' = "addFromPublicSuffix"
            /\ err' = err
  /\ UNCHANGED <<iana, psl, PseudoTLDs, list, created, tldsFile, allTlds, sink,
                 regexFile>>
  /\ UNCHANGED <<joinVars, scanVars>>

\* addFromPublicSuffix, and tldList returning its error to main
AddFromPublicSuffix ==
  /\ pc = "addFromPublicSuffix"
  /\ IF psl.outcome = "request_failed"
       THEN /\ err' = "Could not get TLD list"
            /\ pc' = "fatal"
            /\ tlds' = tlds
       ELSE /\ tlds' = tlds \cup PslKeys(psl.lines)
            /\ pc' = "sort"
            /\ err' = err
  /\ UNCHANGED <<iana, psl, PseudoTLDs, list, created, tldsFile, allTlds, sink,
                 regexFile>>
  /\ UNCHANGED <<joinVars, scanVars>>

\* the rest of tldList: the keys of the map, sorted
TldList ==
  /\ pc = "sort"
  /\ list' = SortStrings(MapKeys(tlds))
  /\ pc' = "writeTlds"
  /\ UNCHANGED <<iana, psl, PseudoTLDs, tlds, err, created, tldsFile, allTlds,
                 sink, regexFile>>
  /\ UNCHANGED <<joinVars, scanVars>>

\* writeTlds: os.Create may fail; otherwise tldsTmpl writes the list
WriteTlds ==
  /\ pc = "writeTlds"
  /\ \E ok \in BOOLEAN :
       IF ok
         THEN /\ created' = created \cup {"tlds.go"}
              /\ tldsFile' = list
              /\ pc' = "writeRegex"
              /\ err' = err
         ELSE /\ created' = created
              /\ tldsFile' = tldsFile
              /\ pc' = "fatal"
              /\ err' = "Could not write tlds.go"
  /\ UNCHANGED <<iana, psl, PseudoTLDs, tlds, list, allTlds, sink, regexFile>>
  /\ UNCHANGED <<joinVars, scanVars>>

\* allTlds of writeRegex: tlds, then xurls.PseudoTLDs, sorted
AllTlds(tldSeq, pseudo) == SortStrings(tldSeq \o pseudo)

\* writeRegex: the patterns are built, then os.Create may fail
WriteRegex ==
  /\ pc = "writeRegex"
  /\ allTlds' = AllTlds(list, PseudoTLDs)
  /\ \E ok \in BOOLEAN :
       IF ok
         THEN /\ created' = created \cup {"regex.go"}
              /\ sink' = TemplateData(reverseJoin(allTlds', <<"|">>).ret)
              /\ regexFile' = regexTmpl(sink')
              /\ pc' = "done"
              /\ err' = err
         ELSE /\ created' = created
              /\ sink' = sink
              /\ regexFile' = regexFile
              /\ pc' = "fatal"
              /\ err' = "Could not write regex.go"
  /\ UNCHANGED <<iana, psl, PseudoTLDs, tlds, list, tldsFile>>
  /\ UNCHANGED <<joinVars, scanVars>>

Next == AddFromIana \/ AddFromPublicSuffix \/ TldList \/ WriteTlds \/ WriteRegex

Spec == Init /\ [][Next]_vars

(***************************************************************************)
(* Properties of the generator run.                                        *)
(***************************************************************************)
\* the alternatives of the TLD alternation of the generated webURL pattern,
\* in the order the pattern lists them
GeneratedAlternatives == Alternatives(reverseJoin(allTlds, <<"|">>).ret)

IsProperPrefix(x, y) == Len(x) < Len(y) /\ SubSeq(y, 1, Len(x)) = x

\* C1: the TLD sequence joined into the alternation contains each distinct
\* TLD exactly once, whatever the two sources and the pseudo-TLD list are.
C1_EachTldOnce ==
  pc = "done" =>
    \A i, j \in DOMAIN allTlds : allTlds[i] = allTlds[j] => i = j

\* C2: whenever one TLD of the list is a proper prefix of another, every
\* occurrence of the longer one precedes every occurrence of the shorter one
\* in the alternation, and a leftmost-first match of the alternation on a
\* TLD of the list consumes that whole TLD.
C2_LongerPrefixFirst ==
  pc = "done" =>
    /\ \A i, j \in DOMAIN GeneratedAlternatives :
         IsProperPrefix(GeneratedAlternatives[j], GeneratedAlternatives[i]) => i < j
    /\ \A k \in DOMAIN allTlds :
         Head(Ends(gtldRe(reverseJoin(allTlds, <<"|">>).ret), allTlds[k], 1))
           = Len(allTlds[k]) + 1

C2_Witness ==
  /\ pc = "done"
  /\ \E i, j \in DOMAIN allTlds : allTlds[i] = com /\ allTlds[j] = commbank
  /\ Head(Ends(gtldRe(reverseJoin(allTlds, <<"|">>).ret), commbank, 1)) = 9

C9_FailureStopsRun ==
  (iana.outcome # "ok" \/ psl.outcome # "ok") =>
    /\ pc \notin {"writeTlds", "writeRegex", "done"}
    /\ created = {}

(***************************************************************************)
(* reverseJoin on its own: a call with arbitrary arguments.                *)
(***************************************************************************)
GenIdle ==
  /\ iana = None /\ psl = None /\ PseudoTLDs = <<>> /\ tlds = {}
  /\ list = <<>> /\ err = "" /\ created = {} /\ tldsFile = <<>>
  /\ allTlds = <<>> /\ sink = NoData /\ regexFile = NoFile

\* bound of the argument slices
MaxJoin == 3

JoinStrings == {<<>>, <<"a">>, com, <<"|">>}
JoinSeps == {<<>>, <<"|">>, <<".", " ">>}

JoinInit ==
  /\ pc = "reverseJoin"
  /\ joinArgs \in {[a |-> x, sep |-> y] : x \in SeqsUpTo(JoinStrings, MaxJoin),
                                           y \in JoinSeps}
  /\ joined = NoJoin
  /\ GenIdle
  /\ input = None /\ scanTlds = <<>> /\ found = None

ReverseJoinCall ==
  /\ pc = "reverseJoin"
  /\ joined' = reverseJoin(joinArgs.a, joinArgs.sep)
  /\ pc' = "returned"
  /\ UNCHANGED <<iana, psl, PseudoTLDs, tlds, list, err, created, tldsFile,
                 allTlds, sink, regexFile, joinArgs, scanVars>>

JoinNext == ReverseJoinCall

SpecJoin == JoinInit /\ [][JoinNext]_vars

\* the elements from last to first with the separator between neighbours
RECURSIVE LastToFirst(_, _)
LastToFirst(x, y) ==
  IF x = <<>> THEN <<>>
  ELSE IF Len(x) = 1 THEN x[1]
  ELSE x[Len(x)] \o y \o LastToFirst(SubSeq(x, 1, Len(x) - 1), y)

\* C10: reverseJoin(a, sep) is the elements of a from last to first with sep
\* between consecutive elements: empty for an empty a, a[0] for one element,
\* otherwise of length sum of the lengths plus len(sep)*(len(a)-1), every
\* byte of the buffer written.
C10_ReverseJoin ==
  pc = "returned" =>
    /\ joined.ret = LastToFirst(joinArgs.a, joinArgs.sep)
    /\ Len(joinArgs.a) = 0 => joined.ret = <<>>
    /\ Len(joinArgs.a) = 1 => joined.ret = joinArgs.a[1]
    /\ Len(joinArgs.a) > 1 =>
         /\ Len(joined.ret)
              = SumLen(joinArgs.a) + Len(joinArgs.sep) * (Len(joinArgs.a) - 1)
         /\ joined.bp = joined.n
    /\ "nul" \notin SeqRange(joined.ret)

C10_Witness ==
  /\ pc = "returned"
  /\ joinArgs.a = <<com, <<>>, <<"a">> >>
  /\ joinArgs.sep = <<".", " ">>
  /\ joined.ret = <<"a", ".", " ", ".", " ", "c", "o", "m">>

(***************************************************************************)
(* The IPv4 pattern on four dot-separated octets.                          *)
(***************************************************************************)
\* octets as written: one to three digits, none of two digits with a leading
\* zero
OctetStrings ==
  { <<"0">>, <<"1">>, <<"1", "0">>, <<"1", "0", "0">>, <<"1", "9", "9">>,
    <<"2", "4", "9">>, <<"2", "5", "5">>, <<"2", "5", "6">>, <<"3", "0", "0">>,
    <<"0", "0", "0">> }

Dotted(octets) ==
  octets[1] \o <<".">> \o octets[2] \o <<".">> \o octets[3] \o <<".">> \o octets[4]

RECURSIVE DecValue(_)
DecValue(s) ==
  IF s = <<>> THEN 0
  ELSE 10 * DecValue(SubSeq(s, 1, Len(s) - 1)) + (Code[s[Len(s)]] - 48)

IPv4Init ==
  /\ pc = "match"
  /\ input \in [1..4 -> OctetStrings]
  /\ scanTlds = <<>>
  /\ found = [full |-> FALSE]
  /\ joinArgs = None /\ joined = NoJoin
  /\ GenIdle

MatchIPv4 ==
  /\ pc = "match"
  /\ found' = [full |-> FullMatch(ipv4Addr, Dotted(input))]
  /\ pc' = "matched"
  /\ UNCHANGED <<iana, psl, PseudoTLDs, tlds, list, err, created, tldsFile,
                 allTlds, sink, regexFile, joinVars, input, scanTlds>>

IPv4Next == MatchIPv4

SpecIPv4 == IPv4Init /\ [][IPv4Next]_vars

\* C5: the IPv4 pattern fully matches four dot-separated decimal octets
\* exactly when each of the four has a value in 0..255, the same range at
\* every position.
C5_OctetRange ==
  pc = "matched" =>
    (found.full <=> \A k \in 1..4 : DecValue(input[k]) \in 0..255)

(***************************************************************************)
(* The label pattern iri on single labels.                                 *)
(***************************************************************************)
\* bounds of the label lengths tried: 0..ShortLabel and 62..63+OverLabel
ShortLabel == 3
OverLabel == 2

LabelLens == (0..ShortLabel) \cup (62..(63 + OverLabel))

\* a letter, a digit, the hyphen, a dot, letters in and out of the ranges
LabelSample == {"a", "1", "-", ".", "u00e9", "ufdd0"}

\* a label of n characters: "a" everywhere but at the first position, the
\* last position and one position p
LabelOf(n, f, l, p, m) ==
  [k \in 1..n |-> IF k = 1 THEN f ELSE IF k = n THEN l ELSE IF k = p THEN m ELSE "a"]

LabelInputs ==
  { LabelOf(n, f, l, p, m) :
      n \in LabelLens, f \in LabelSample, l \in LabelSample,
      p \in {2, 61}, m \in LabelSample }

LabelInit ==
  /\ pc = "match"
  /\ input \in LabelInputs
  /\ scanTlds = <<>>
  /\ found = [full |-> FALSE]
  /\ joinArgs = None /\ joined = NoJoin
  /\ GenIdle

MatchLabel ==
  /\ pc = "match"
  /\ found' = [full |-> FullMatch(iri, input)]
  /\ pc' = "matched"
  /\ UNCHANGED <<iana, psl, PseudoTLDs, tlds, list, err, created, tldsFile,
                 allTlds, sink, regexFile, joinVars, input, scanTlds>>

LabelNext == MatchLabel

SpecLabel == LabelInit /\ [][LabelNext]_vars

Interior(s) == {s[k] : k \in 2..(Len(s) - 1)}

\* C6 as stated: a string is a label exactly when it has 1 to 63
\* characters, starts with a character of the letter class, ends with a
\* letter or digit and has letters, digits and hyphens in between.
C6_LabelStartsWithLetter ==
  pc = "matched" =>
    (found.full <=>
       /\ Len(input) \in 1..63
       /\ input[1] \in letters
       /\ input[Len(input)] \in iriChar
       /\ Interior(input) \subseteq iriChar \cup {"-"})

\* C6 amended: a string is a label exactly when it has 1 to 63 characters,
\* starts with a letter or a digit, ends with a letter or a digit and has
\* letters, digits and hyphens in between.
C6_LabelShape ==
  pc = "matched" =>
    (found.full <=>
       /\ Len(input) \in 1..63
       /\ input[1] \in iriChar
       /\ input[Len(input)] \in iriChar
       /\ Interior(input) \subseteq iriChar \cup {"-"})

C6_Witness ==
  /\ pc = "matched"
  /\ Len(input) = 63
  /\ input[1] = "1"
  /\ input[2] = "-"
  /\ found.full

(***************************************************************************)
(* The generated patterns on texts: a scan of one text with the webURL,    *)
(* email and hostName patterns generated from one TLD list.                *)
(***************************************************************************)
http == <<"h", "t", "t", "p", ":", "/", "/">>
https == <<"h", "t", "t", "p", "s", ":", "/", "/">>

Leads == {<<>>, <<"V", " ">>}
Schemes == {<<>>, http, https}
UserInfos == {<<>>, <<"u", "@">>, <<"u", ":", "p", "@">>}
Hosts ==
  { <<>>, <<"a", ".", "c", "o", "m">>,
    <<"a", ".", "c", "o", "m", "m", "b", "a", "n", "k">>,
    <<"l", "o", "c", "a", "l", "h", "o", "s", "t">>,
    <<"1", ".", "2", ".", "3", ".", "4">>, <<":", ":", "1">> }
Ports == {<<>>, <<":", "8", "0">>}
Paths == {<<>>, <<"/">>, <<"/", "p">>, <<"/", "%", "2", "f">>}
Trails == {<<>>, <<".">>, <<".", " ", "x">>}

ScanInputs ==
  [lead : Leads, scheme : Schemes, user : UserInfos, host : Hosts,
   port : Ports, path : Paths, trail : Trails]

\* the text of an input, and the part of it before the trailing text
UrlPart(in) == in.lead \o in.scheme \o in.user \o in.host \o in.port \o in.path
TextOf(in) == UrlPart(in) \o in.trail

\* the sorted lists writeRegex can join
ScanLists == {SortStrings(MapKeys(S)) : S \in SUBSET {com, commbank}}

gtldOf(tldSeq) == gtldRe(reverseJoin(tldSeq, <<"|">>).ret)

ScanInit ==
  /\ pc = "scan"
  /\ input \in ScanInputs
  /\ scanTlds \in ScanLists
  /\ found = [url |-> <<>>, email |-> <<>>, host |-> <<>>]
  /\ joinArgs = None /\ joined = NoJoin
  /\ GenIdle

Scan ==
  /\ pc = "scan"
  /\ found' = [url |-> Find(webURLRe(domainNameRe(gtldOf(scanTlds))), TextOf(input)),
               email |-> Find(emailRe(domainNameRe(gtldOf(scanTlds))), TextOf(input)),
               host |-> Find(hostNameRe(gtldOf(scanTlds)), TextOf(input))]
  /\ pc' = "scanned"
  /\ UNCHANGED <<iana, psl, PseudoTLDs, tlds, list, err, created, tldsFile,
                 allTlds, sink, regexFile, joinVars, input, scanTlds>>

ScanNext == Scan

SpecScan == ScanInit /\ [][ScanNext]_vars

\* the domain-name pattern generated from the scanned list
ScanDomain == domainNameRe(gtldOf(scanTlds))

\* a match of the domain-name pattern starts at position k of the text and
\* ends at or before position e
DomainAt(k, e) == \E j \in SeqRange(Ends(ScanDomain, TextOf(input), k)) : j <= e

StartsWith(s, k, prefix) ==
  /\ k + Len(prefix) - 1 <= Len(s)
  /\ SubStr(s, k, k + Len(prefix)) = prefix

\* the length of the scheme the text has at position k, 0 when none
SchemeLen(s, k) ==
  IF StartsWith(s, k, http) THEN Len(http)
  ELSE IF StartsWith(s, k, https) THEN Len(https)
  ELSE 0

\* C3: every match of the web URL pattern contains a match of the
\* domain-name pattern; in a match that begins with http:// or https:// the
\* domain-name match starts right after the scheme or right after the "@"
\* that ends the user-info; and the text http:// (or https://) alone has no
\* match.
C3_UrlHasDomain ==
  pc = "scanned" =>
    /\ found.url # <<>> =>
         /\ \E k \in found.url[1]..(found.url[2] - 1) : DomainAt(k, found.url[2])
         /\ SchemeLen(TextOf(input), found.url[1]) > 0 =>
              LET k == found.url[1] + SchemeLen(TextOf(input), found.url[1])
              IN  \/ DomainAt(k, found.url[2])
                  \/ \E u \in (k + 1)..(found.url[2] - 1) :
                       /\ TextOf(input)[u - 1] = "@"
                       /\ \A j \in k..(u - 2) : TextOf(input)[j] \notin {"@", "/"}
                       /\ DomainAt(u, found.url[2])
    /\ TextOf(input) \in {http, https} => found.url = <<>>

C3_Witness ==
  /\ pc = "scanned"
  /\ input.lead = <<"V", " ">>
  /\ input.scheme = https
  /\ input.user = <<"u", ":", "p", "@">>
  /\ input.host = <<"a", ".", "c", "o", "m">>
  /\ input.path = <<"/", "p">>
  /\ found.url = <<3, Len(UrlPart(input)) + 1>>
  /\ DomainAt(15, found.url[2])

\* the host of the input is a domain name of the scanned list
IsUrlInput == input.host # <<>> /\ FullMatch(ScanDomain, input.host)

\* C4: when a URL, with or without a path, is immediately followed by a
\* sentence-ending period - followed by more text or last in the input -
\* the match ends before the period.
C4_PeriodNotSwallowed ==
  (pc = "scanned" /\ IsUrlInput /\ input.trail # <<>>) =>
    /\ found.url # <<>>
    /\ found.url[2] <= Len(UrlPart(input)) + 1

\* C8: when the joined list is empty the host-name pattern matches no
\* input.
C8_EmptyListMatchesNothing ==
  (pc = "scanned" /\ scanTlds = <<>>) => found.host = <<>>

====
